---- MODULE Spec2Model ----
(***************************************************************************)
(* A model of sub_renamer.py: the season/episode key extractor, the video  *)
(* lookup of one directory, the per-subtitle rename decision, the          *)
(* directory pass and the walk over the directories of a tree.             *)
(*                                                                         *)
(* Text is modelled as a sequence of one-character strings, so that the    *)
(* regular expression, splitext, lower() and endswith() are computed on    *)
(* the characters as the code computes them.                               *)
(***************************************************************************)
EXTENDS Naturals, Sequences, FiniteSets

VARIABLES
    \* ---- the key extractor on its own (SpecKey)
    kpc,                \* "idle" | "chosen" | "extracted"
    spelling,           \* the parts the stem was written from
    stem,               \* the text handed to pattern.search
    base_key,           \* the result: <<FALSE>> (no match) or <<TRUE, key>>
    \* ---- the filesystem
    ci,                 \* TRUE: the filesystem compares names case-insensitively
    fs,                 \* the names present in the current directory
    \* ---- rename_ass_to_match_mkv
    pc,                 \* "walk" | "loop" | "finished"
    nDirs,              \* number of directories os.walk will yield
    visited,            \* directories yielded so far
    g_renamed,          \* total_ass_renamed of rename_ass_to_match_mkv
    g_error,            \* total_error of rename_ass_to_match_mkv
    perDir,             \* history: the pair each _process_directory call returned
    \* ---- _process_directory
    filenames,          \* the listing the pass works from
    fs0,                \* history: fs when the pass started
    mkv_basename_map,   \* key -> stem of a video file
    warnings,           \* the duplicate-key warnings printed, <<key, old stem, new stem>>
    ass_files,          \* the subtitle files of the listing, in order
    idx,                \* next position of the loop over ass_files
    total_ass_renamed,
    total_error,
    log,                \* history: one record per subtitle file processed
    \* ---- a second run on the same directory (SpecTwice)
    runs,               \* the number of runs of the program
    run,                \* the run under way
    prev                \* history: what the first run left

keyVars == <<kpc, spelling, stem, base_key>>
walkVars == <<pc, nDirs, visited, g_renamed, g_error, perDir>>
dirVars == <<filenames, fs0, mkv_basename_map, warnings, ass_files, idx,
             total_ass_renamed, total_error, log>>
vars == <<keyVars, ci, fs, walkVars, dirVars, runs, run, prev>>

----------------------------------------------------------------------------
(* Bounds of the model *)

MaxSeasonDigits == 2
MaxEpisodeDigits == 3
MaxSecondDigits == 2
MaxFiles == 3
MaxDirs == 2

----------------------------------------------------------------------------
(* Characters and text *)

UpperLetters == <<"A","B","C","D","E","F","G","H","I","J","K","L","M",
                  "N","O","P","Q","R","S","T","U","V","W","X","Y","Z">>
LowerLetters == <<"a","b","c","d","e","f","g","h","i","j","k","l","m",
                  "n","o","p","q","r","s","t","u","v","w","x","y","z">>
DigitChars == <<"0","1","2","3","4","5","6","7","8","9">>

\* str.lower() on one character
LowerOf == [c \in {UpperLetters[i] : i \in 1..26} |->
               LowerLetters[CHOOSE i \in 1..26 : UpperLetters[i] = c]]
LowerChar(c) == IF c \in DOMAIN LowerOf THEN LowerOf[c] ELSE c

\* str.lower()
Lower(s) == [i \in 1..Len(s) |-> LowerChar(s[i])]

\* str.endswith(suffix)
EndsWith(s, suffix) ==
    /\ Len(s) >= Len(suffix)
    /\ SubSeq(s, Len(s) - Len(suffix) + 1, Len(s)) = suffix

\* \d
ValueOf == [c \in {DigitChars[i] : i \in 1..10} |->
               (CHOOSE i \in 1..10 : DigitChars[i] = c) - 1]
IsDigit(c) == c \in DOMAIN ValueOf

DigitValue(c) == ValueOf[c]

\* int() of a run of decimal digits
RECURSIVE ParseInt(_)
ParseInt(ds) ==
    IF ds = <<>> THEN 0
    ELSE 10 * ParseInt(SubSeq(ds, 1, Len(ds) - 1)) + DigitValue(ds[Len(ds)])

\* str() of a natural number
RECURSIVE ToDigits(_)
ToDigits(n) ==
    IF n < 10 THEN <<DigitChars[n + 1]>>
    ELSE ToDigits(n \div 10) \o <<DigitChars[(n % 10) + 1]>>

\* the format specification :02d
Format02d(n) == IF n < 10 THEN <<"0">> \o ToDigits(n) ELSE ToDigits(n)

\* os.path.splitext of a name without directory separators: split at the last
\* dot, unless only dots precede it
LastDot(s) ==
    IF \E i \in 1..Len(s) : s[i] = "."
    THEN CHOOSE i \in 1..Len(s) : s[i] = "." /\ \A j \in (i+1)..Len(s) : s[j] # "."
    ELSE 0

SplitExt(s) ==
    LET d == LastDot(s)
    IN  IF d > 0 /\ \E j \in 1..(d - 1) : s[j] # "."
        THEN <<SubSeq(s, 1, d - 1), SubSeq(s, d, Len(s))>>
        ELSE <<s, <<>> >>

----------------------------------------------------------------------------
(* _get_pattern: [Ss](\d+)[-_\.]?[Ee](\d+)([-_\.]?[Ee]\d+)? with IGNORECASE *)

IsS(c) == c \in {"S", "s"}
IsE(c) == c \in {"E", "e"}
IsSepNoDot(c) == c \in {"-", "_"}
IsSep(c) == c \in {"-", "_", "."}

\* the longest run of digits of s that starts at position i (\d+ is greedy, and
\* giving a digit back never helps: what follows \d+ in the pattern is no digit)
RECURSIVE DigitRun(_, _)
DigitRun(s, i) ==
    IF i <= Len(s) /\ IsDigit(s[i]) THEN <<s[i]>> \o DigitRun(s, i + 1) ELSE <<>>

\* [-_\.]? at position i: the number of characters it takes when [Ee] must follow
SepLen(s, i) ==
    IF i < Len(s) /\ IsSep(s[i]) /\ IsE(s[i + 1]) THEN 1 ELSE 0

NoMatch == [found |-> FALSE, g1 |-> <<>>, g2 |-> <<>>, g3 |-> <<>>]

\* ([-_\.]?[Ee]\d+)? at position m, the separator (if any) ending before n:
\* the text of the group, <<>> for a group that took no part in the match
Group3At(s, m, n) ==
    IF n <= Len(s) /\ IsE(s[n]) /\ n < Len(s) /\ IsDigit(s[n + 1])
    THEN SubSeq(s, m, n + Len(DigitRun(s, n + 1)))
    ELSE <<>>

\* (\d+) after [Ee], then the optional third group
AfterEpisode(s, g1, g2, p) ==
    IF g2 = <<>> THEN NoMatch
    ELSE [found |-> TRUE, g1 |-> g1, g2 |-> g2,
          g3 |-> Group3At(s, p + Len(g2), p + Len(g2) + SepLen(s, p + Len(g2)))]

\* [Ee] at position k
AtEpisode(s, g1, k) ==
    IF k <= Len(s) /\ IsE(s[k]) THEN AfterEpisode(s, g1, DigitRun(s, k + 1), k + 1)
    ELSE NoMatch

\* (\d+) after [Ss], then [-_\.]?
AfterSeason(s, g1, p) ==
    IF g1 = <<>> THEN NoMatch
    ELSE AtEpisode(s, g1, p + Len(g1) + SepLen(s, p + Len(g1)))

\* pattern.match at position i
MatchAt(s, i) ==
    IF i <= Len(s) /\ IsS(s[i]) THEN AfterSeason(s, DigitRun(s, i + 1), i + 1)
    ELSE NoMatch

\* pattern.search: the match at the leftmost position that has one
RECURSIVE SearchFrom(_, _)
SearchFrom(s, i) ==
    IF i > Len(s) THEN NoMatch
    ELSE IF IsS(s[i]) /\ MatchAt(s, i).found THEN MatchAt(s, i)
    ELSE SearchFrom(s, i + 1)

Search(s) == SearchFrom(s, 1)

\* re.search(r"[Ee](\d+)", group): the digits after the first E followed by a digit
SecondEpisodeDigitsAnchored(g) ==
    IF g # <<>> /\ IsE(g[1]) THEN DigitRun(g, 2) ELSE <<>>
SecondEpisodeDigits(g) ==
    IF \E i \in 1..Len(g) : IsE(g[i]) /\ DigitRun(g, i + 1) # <<>>
    THEN DigitRun(g, 1 + CHOOSE i \in 1..Len(g) :
                        /\ IsE(g[i]) /\ DigitRun(g, i + 1) # <<>>
                        /\ \A j \in 1..(i - 1) :
                              ~(IsE(g[j]) /\ DigitRun(g, j + 1) # <<>>))
    ELSE <<>>

\* _extract_base_key
_extract_base_key(match) ==
    LET season_num == ParseInt(match.g1)
        episode_num == ParseInt(match.g2)
        double_episode_group == match.g3
        key == <<"S">> \o Format02d(season_num) \o <<"E">> \o Format02d(episode_num)
        dd == SecondEpisodeDigits(double_episode_group)
    IN  IF double_episode_group # <<>> /\ dd # <<>>
        THEN key \o <<"-", "E">> \o Format02d(ParseInt(dd))
        ELSE key

----------------------------------------------------------------------------
(* The key extractor on its own: a stem is written from a spelling of a     *)
(* marker and handed to pattern.search and _extract_base_key.               *)

KeyDigits == {"0", "1"}
DigitStrings(n) == UNION {[1..k -> KeyDigits] : k \in 1..n}
Seps == {<<>>, <<"-">>, <<"_">>, <<".">>}
Prefixes == {<<>>, <<"s", "1", ".">>}

NoSpelling ==
    [prefix |-> <<>>, sc |-> "S", sd |-> <<>>, sep |-> <<>>, ec |-> "E", ed |-> <<>>,
     has2 |-> FALSE, sep2 |-> <<>>, ec2 |-> "E", ed2 |-> <<>>]

\* the text of a spelling
Render(sp) ==
    sp.prefix \o <<sp.sc>> \o sp.sd \o sp.sep \o <<sp.ec>> \o sp.ed
    \o (IF sp.has2 THEN sp.sep2 \o <<sp.ec2>> \o sp.ed2 ELSE <<>>)

\* a stem with a marker without second episode group
KeyChoose ==
    /\ kpc = "idle"
    /\ \E prefix \in Prefixes, sc \in {"S", "s"}, sd \in DigitStrings(MaxSeasonDigits),
          sep \in Seps, ec \in {"E", "e"}, ed \in DigitStrings(MaxEpisodeDigits) :
          spelling' = [NoSpelling EXCEPT !.prefix = prefix, !.sc = sc, !.sd = sd,
                                         !.sep = sep, !.ec = ec, !.ed = ed]
    /\ stem' = Render(spelling')
    /\ kpc' = "chosen"
    /\ UNCHANGED <<base_key, ci, fs, walkVars, dirVars, runs, run, prev>>

\* a stem with a double-episode marker
KeyChooseDouble ==
    /\ kpc = "idle"
    /\ \E sc \in {"S", "s"}, sd \in DigitStrings(MaxSeasonDigits),
          sep \in Seps, ec \in {"E", "e"}, ed \in DigitStrings(MaxEpisodeDigits),
          sep2 \in Seps, ec2 \in {"E", "e"}, ed2 \in DigitStrings(MaxSecondDigits) :
          spelling' = [NoSpelling EXCEPT !.sc = sc, !.sd = sd, !.sep = sep, !.ec = ec,
                                         !.ed = ed, !.has2 = TRUE, !.sep2 = sep2,
                                         !.ec2 = ec2, !.ed2 = ed2]
    /\ stem' = Render(spelling')
    /\ kpc' = "chosen"
    /\ UNCHANGED <<base_key, ci, fs, walkVars, dirVars, runs, run, prev>>

\* match = pattern.search(name_only); if match: base_key = _extract_base_key(match)
KeyExtract ==
    /\ kpc = "chosen"
    /\ \E match \in {Search(stem)} :
           base_key' = IF match.found THEN <<TRUE, _extract_base_key(match)>>
                       ELSE <<FALSE>>
    /\ kpc' = "extracted"
    /\ UNCHANGED <<spelling, stem, ci, fs, walkVars, dirVars, runs, run, prev>>

----------------------------------------------------------------------------
(* The filesystem collaborator: one directory as the set of its names.      *)

\* two names of one directory denote the same entry
SamePath(insensitive, a, b) == IF insensitive THEN Lower(a) = Lower(b) ELSE a = b

\* os.path.join(dirpath, filename)
Join(dirpath, filename) == <<dirpath, filename>>

\* os.path.exists(path)
FsExists(insensitive, dir, path) == \E g \in dir : SamePath(insensitive, g, path[2])

\* os.rename(old, new) that succeeds: the entry of old goes, new names the file
\* (an entry already at new is replaced, as rename(2) does)
FsRename(insensitive, dir, old, new) ==
    ({g \in dir : ~SamePath(insensitive, g, new[2])} \ {old[2]}) \cup {new[2]}

----------------------------------------------------------------------------
(* _build_mkv_map *)

MkvExt == <<".", "m", "k", "v">>
AssExt == <<".", "a", "s", "s">>

\* f.lower().endswith(".mkv")
IsMkv(f) == EndsWith(Lower(f), MkvExt)
\* f.lower().endswith(".ass")
IsAss(f) == EndsWith(Lower(f), AssExt)

EmptyMap == [k \in {} |-> <<>>]

\* mkv_basename_map[base_key] = name_only
MapInsertFirstWins(map, k, v) ==
    IF k \in DOMAIN map THEN map
    ELSE [x \in DOMAIN map \cup {k} |-> IF x = k THEN v ELSE map[x]]
MapInsert(map, k, v) ==
    [x \in DOMAIN map \cup {k} |-> IF x = k THEN v ELSE map[x]]

\* the loop over mkv_files from position i, acc = [map, warnings]
RECURSIVE BuildFrom(_, _, _)
BuildFrom(mkv_files, i, acc) ==
    IF i > Len(mkv_files) THEN acc
    ELSE LET name_only == SplitExt(mkv_files[i])[1]
             match == Search(name_only)
         IN  IF ~match.found THEN BuildFrom(mkv_files, i + 1, acc)
             ELSE LET k == _extract_base_key(match)
                  IN  BuildFrom(mkv_files, i + 1,
                        [map |-> MapInsert(acc.map, k, name_only),
                         warnings |-> IF k \in DOMAIN acc.map
                                      THEN Append(acc.warnings,
                                                  <<k, acc.map[k], name_only>>)
                                      ELSE acc.warnings])

_build_mkv_map(names) ==
    BuildFrom(SelectSeq(names, IsMkv), 1, [map |-> EmptyMap, warnings |-> <<>>])

----------------------------------------------------------------------------
(* _rename_single_ass_file: what it returns, the message it prints (class)   *)
(* and the directory it leaves; oserror says whether os.rename, if called,   *)
(* raises OSError.                                                          *)

Outcome(success, skipped, class, target, dir) ==
    [success |-> success, skipped |-> skipped, class |-> class,
     target |-> target, dir |-> dir]

\* the test before os.rename
TargetTakenNoCheck(insensitive, dir, new_filepath, old_filepath) == FALSE
TargetTakenExactName(insensitive, dir, new_filepath, old_filepath) ==
    new_filepath[2] \in dir /\ new_filepath # old_filepath
TargetTaken(insensitive, dir, new_filepath, old_filepath) ==
    FsExists(insensitive, dir, new_filepath) /\ new_filepath # old_filepath

\* the try block: the collision test, then os.rename
TryRenameErrorSkipped(insensitive, dir, dirpath, filename, new_filename, oserror) ==
    LET old_filepath == Join(dirpath, filename)
        new_filepath == Join(dirpath, new_filename)
    IN  IF TargetTaken(insensitive, dir, new_filepath, old_filepath)
        THEN Outcome(FALSE, FALSE, "collision", new_filename, dir)
        ELSE IF oserror
        THEN Outcome(FALSE, TRUE, "failed", new_filename, dir)
        ELSE Outcome(TRUE, FALSE, "renamed", new_filename,
                     FsRename(insensitive, dir, old_filepath, new_filepath))
TryRename(insensitive, dir, dirpath, filename, new_filename, oserror) ==
    LET old_filepath == Join(dirpath, filename)
        new_filepath == Join(dirpath, new_filename)
    IN  IF TargetTaken(insensitive, dir, new_filepath, old_filepath)
        THEN Outcome(FALSE, FALSE, "collision", new_filename, dir)
        ELSE IF oserror
        THEN Outcome(FALSE, FALSE, "failed", new_filename, dir)
        ELSE Outcome(TRUE, FALSE, "renamed", new_filename,
                     FsRename(insensitive, dir, old_filepath, new_filepath))

\* new_filename = target_mkv_name_base + ext.lower()
NewFilenameKeepCase(target_mkv_name_base, ext) == target_mkv_name_base \o ext
NewFilename(target_mkv_name_base, ext) == target_mkv_name_base \o Lower(ext)

\* if filename == new_filename
AlreadyNamedNever(filename, new_filename) == FALSE
AlreadyNamed(filename, new_filename) == filename = new_filename

_rename_single_ass_file(insensitive, dir, filename, dirpath, map, oserror) ==
    LET name_only == SplitExt(filename)[1]
        ext == SplitExt(filename)[2]
        match == Search(name_only)
    IN  IF ~match.found
        THEN Outcome(FALSE, TRUE, "nokey", <<>>, dir)
        ELSE LET ass_base_key == _extract_base_key(match)
             IN  IF ass_base_key \notin DOMAIN map
                 THEN Outcome(FALSE, TRUE, "nomatch", <<>>, dir)
                 ELSE LET new_filename == NewFilename(map[ass_base_key], ext)
                      IN  IF AlreadyNamed(filename, new_filename)
                          THEN Outcome(FALSE, TRUE, "correct", new_filename, dir)
                          ELSE TryRename(insensitive, dir, dirpath, filename,
                                         new_filename, oserror)

----------------------------------------------------------------------------
(* The directories of the model: listings of at most MaxFiles names.        *)

\* "A.S01E01.mkv"
Video_A == <<"A",".","S","0","1","E","0","1",".","m","k","v">>
\* "B.s1e1.MKV"
Video_B == <<"B",".","s","1","e","1",".","M","K","V">>
\* "C.S02E03.mkv"
Video_C == <<"C",".","S","0","2","E","0","3",".","m","k","v">>
\* "x.S1-E1.ass"
Sub_x == <<"x",".","S","1","-","E","1",".","a","s","s">>
\* "y.S01E01.chs.ASS"
Sub_y == <<"y",".","S","0","1","E","0","1",".","c","h","s",".","A","S","S">>
\* "A.S01E01.ass"
Sub_A == <<"A",".","S","0","1","E","0","1",".","a","s","s">>
\* "A.S01E01.ASS"
Sub_A_upper == <<"A",".","S","0","1","E","0","1",".","A","S","S">>
\* "R.ass"
Sub_R == <<"R",".","a","s","s">>
\* "z.S02E03.ass"
Sub_z == <<"z",".","S","0","2","E","0","3",".","a","s","s">>
\* "n.txt"
Other_n == <<"n",".","t","x","t">>

Pool == {Video_A, Video_B, Video_C, Sub_x, Sub_y, Sub_A, Sub_A_upper, Sub_R, Sub_z, Other_n}

\* the orders in which a directory holding the names of dir can be listed
ListingsOf(dir) ==
    {l \in [1..Cardinality(dir) -> dir] : \A i, j \in DOMAIN l : i # j => l[i] # l[j]}

\* the listings of the directories os.walk may yield: no name twice, and on a
\* case-insensitive filesystem no two names of one entry
ListingsWith(names, insensitive) ==
    UNION {{l \in [1..n -> names] :
              \A i, j \in 1..n : i # j => ~SamePath(insensitive, l[i], l[j])}
           : n \in 0..MaxFiles}
ListingsSensitive == ListingsWith(Pool, FALSE)
ListingsInsensitive == ListingsWith(Pool, TRUE)
Listings(insensitive) ==
    IF insensitive THEN ListingsInsensitive ELSE ListingsSensitive

\* the directories after the first add only their counts to what is checked:
\* they are drawn from fewer names
LaterPool == {Video_A, Sub_x, Sub_A_upper}
LaterListingsSensitive == ListingsWith(LaterPool, FALSE)
LaterListingsInsensitive == ListingsWith(LaterPool, TRUE)
LaterListings(insensitive) ==
    IF insensitive THEN LaterListingsInsensitive ELSE LaterListingsSensitive

Range(l) == {l[i] : i \in DOMAIN l}

----------------------------------------------------------------------------
(* _process_directory and rename_ass_to_match_mkv *)

\* _process_directory up to its loop: the lookup, the subtitle files, the counts
\* (a value bound by \E over a one-element set is computed once)
EnterDirectory(listing) ==
    \E built \in {_build_mkv_map(listing)} :
        /\ filenames' = listing
        /\ fs0' = fs'
        /\ mkv_basename_map' = built.map
        /\ warnings' = built.warnings
        /\ ass_files' = SelectSeq(listing, IsAss)
        /\ idx' = 1
        /\ total_ass_renamed' = 0
        /\ total_error' = 0
        /\ log' = <<>>

\* _process_directory has returned: its locals are gone
LeaveDirectory ==
    /\ filenames' = <<>>
    /\ fs0' = {}
    /\ mkv_basename_map' = EmptyMap
    /\ warnings' = <<>>
    /\ ass_files' = <<>>
    /\ idx' = 1
    /\ total_ass_renamed' = 0
    /\ total_error' = 0
    /\ log' = <<>>

\* os.walk yields the next directory and _process_directory starts on it
WalkNext ==
    /\ pc = "walk"
    /\ visited < nDirs
    /\ \E listing \in IF visited = 0 THEN Listings(ci) ELSE LaterListings(ci) :
          /\ fs' = Range(listing)
          /\ EnterDirectory(listing)
    /\ visited' = visited + 1
    /\ pc' = "loop"
    /\ UNCHANGED <<keyVars, ci, nDirs, g_renamed, g_error, perDir, runs, run, prev>>

\* the counts after one result of _rename_single_ass_file
CountAllNonSuccess(counts, success, skipped) ==
    IF success THEN <<counts[1] + 1, counts[2]>> ELSE <<counts[1], counts[2] + 1>>
Count(counts, success, skipped) ==
    IF success THEN <<counts[1] + 1, counts[2]>>
    ELSE IF ~skipped THEN <<counts[1], counts[2] + 1>>
    ELSE counts

\* one iteration of the loop over ass_files
ProcessAss ==
    /\ pc = "loop"
    /\ idx <= Len(ass_files)
    /\ \E oserror \in BOOLEAN, filename \in {ass_files[idx]} :
          \E r \in {_rename_single_ass_file(ci, fs, filename, visited,
                                            mkv_basename_map, oserror)} :
          \E c \in {Count(<<total_ass_renamed, total_error>>, r.success, r.skipped)} :
              /\ fs' = r.dir
              /\ total_ass_renamed' = c[1]
              /\ total_error' = c[2]
              /\ log' = Append(log,
                    [name |-> filename, class |-> r.class, target |-> r.target,
                     others |-> IF r.target = <<>> THEN {}
                                ELSE {g \in fs : g # filename
                                                 /\ SamePath(ci, g, r.target)},
                     before |-> fs, after |-> r.dir])
    /\ idx' = idx + 1
    /\ UNCHANGED <<keyVars, ci, walkVars, filenames, fs0, mkv_basename_map,
                   warnings, ass_files, runs, run, prev>>

\* total_ass_renamed += renamed; total_error += errors
AddTotals(totals, returned) == <<totals[1] + returned[1], totals[2] + returned[2]>>

\* _process_directory returns its counts and the caller adds them to the totals
EndDirectory ==
    /\ pc = "loop"
    /\ idx > Len(ass_files)
    /\ LET returned == <<total_ass_renamed, total_error>>
           t == AddTotals(<<g_renamed, g_error>>, returned)
       IN  /\ g_renamed' = t[1]
           /\ g_error' = t[2]
           /\ perDir' = Append(perDir, returned)
    /\ prev' = IF run < runs
               THEN [dir |-> fs,
                     failed |-> \E i \in DOMAIN log : log[i].class = "failed",
                     map |-> mkv_basename_map]
               ELSE prev
    /\ fs' = IF visited < nDirs THEN {} ELSE fs
    /\ LeaveDirectory
    /\ pc' = "walk"
    /\ UNCHANGED <<keyVars, ci, nDirs, visited, runs, run>>

\* os.walk is exhausted: the summary is printed
Finish ==
    /\ pc = "walk"
    /\ visited = nDirs
    /\ pc' = "finished"
    /\ UNCHANGED <<keyVars, ci, fs, nDirs, visited, g_renamed, g_error, perDir,
                   dirVars, runs, run, prev>>

NoPrev == [dir |-> {}, failed |-> FALSE, map |-> EmptyMap]

\* the program is run again on the directory the first run left
SecondRun ==
    /\ pc = "finished"
    /\ run < runs
    /\ run' = run + 1
    /\ fs' = fs
    /\ \E listing \in ListingsOf(fs) : EnterDirectory(listing)
    /\ g_renamed' = 0
    /\ g_error' = 0
    /\ perDir' = <<>>
    /\ visited' = 1
    /\ pc' = "loop"
    /\ UNCHANGED <<keyVars, ci, nDirs, runs, prev>>

----------------------------------------------------------------------------
(* Specifications *)

InitCommon ==
    /\ kpc = "idle"
    /\ spelling = NoSpelling
    /\ stem = <<>>
    /\ base_key = <<FALSE>>
    /\ fs = {}
    /\ pc = "walk"
    /\ visited = 0
    /\ g_renamed = 0
    /\ g_error = 0
    /\ perDir = <<>>
    /\ filenames = <<>>
    /\ fs0 = {}
    /\ mkv_basename_map = EmptyMap
    /\ warnings = <<>>
    /\ ass_files = <<>>
    /\ idx = 1
    /\ total_ass_renamed = 0
    /\ total_error = 0
    /\ log = <<>>
    /\ run = 1
    /\ prev = NoPrev

\* one run over a tree of MaxDirs directories
Init ==
    /\ InitCommon
    /\ ci \in BOOLEAN
    /\ nDirs = MaxDirs
    /\ runs = 1

Next == WalkNext \/ ProcessAss \/ EndDirectory \/ Finish

Spec == Init /\ [][Next]_vars

\* two runs in succession on one directory
InitTwice ==
    /\ InitCommon
    /\ ci \in BOOLEAN
    /\ nDirs = 1
    /\ runs = 2

NextTwice == WalkNext \/ ProcessAss \/ EndDirectory \/ Finish \/ SecondRun

SpecTwice == InitTwice /\ [][NextTwice]_vars

\* the key extractor on the stems of the marker spellings
InitKey ==
    /\ InitCommon
    /\ ci = FALSE
    /\ nDirs = 1
    /\ runs = 1

NextKey == KeyChoose \/ KeyChooseDouble \/ KeyExtract

SpecKey == InitKey /\ [][NextKey]_vars

----------------------------------------------------------------------------
(* Properties of the key extractor (SpecKey)                                *)

\* a digit string without its leading zeros, then padded to two digits: the
\* decimal value "padded to at least two digits", said on the text alone
StripZeros(ds) ==
    IF \A i \in 1..Len(ds) : ds[i] = "0" THEN <<"0">>
    ELSE SubSeq(ds, CHOOSE i \in 1..Len(ds) :
                       ds[i] # "0" /\ \A j \in 1..(i - 1) : ds[j] = "0", Len(ds))

Pad2(ds) ==
    IF Len(StripZeros(ds)) < 2 THEN <<"0">> \o StripZeros(ds) ELSE StripZeros(ds)

\* the key the specification gives a marker of season digits sd, episode digits ed
SingleKey(sd, ed) == <<"S">> \o Pad2(sd) \o <<"E">> \o Pad2(ed)

\* the season and episode digits read back from a key S<digits>E<digits>...
KeySeason(key) == DigitRun(key, 2)
KeyEpisode(key) == DigitRun(key, 3 + Len(DigitRun(key, 2)))

\* C5: every spelling of a marker of season s and episode e (either case of S and
\* E, separator absent or one of - _ ., any leading zeros, anywhere in the stem)
\* yields the key S<s padded to at least 2 digits>E<e padded to at least 2
\* digits>, and the key determines (s, e): different values give different keys.
C5_KeyByValue ==
    (kpc = "extracted" /\ ~spelling.has2) =>
        /\ base_key = <<TRUE, SingleKey(spelling.sd, spelling.ed)>>
        /\ StripZeros(KeySeason(base_key[2])) = StripZeros(spelling.sd)
        /\ StripZeros(KeyEpisode(base_key[2])) = StripZeros(spelling.ed)
        /\ Len(base_key[2]) = 2 + Len(KeySeason(base_key[2]))
                                + Len(KeyEpisode(base_key[2]))

\* s01.e100 behind a prefix that starts like a marker gives S01E100
C5_Witness ==
    /\ kpc = "extracted"
    /\ ~spelling.has2
    /\ spelling.prefix # <<>>
    /\ spelling.sc = "s" /\ spelling.ec = "e" /\ spelling.sep = <<".">>
    /\ spelling.sd = <<"0", "1">> /\ spelling.ed = <<"1", "0", "0">>
    /\ base_key = <<TRUE, <<"S", "0", "1", "E", "1", "0", "0">> >>

\* C6: a marker with a second episode group (optional separator, E in either
\* case, digits) right after the episode digits yields S<ss>E<ee>-E<zz>, the
\* second number padded like the first; a marker without one yields S<ss>E<ee>
\* and nothing more; so the two never share a key.
C6_DoubleEpisodeKey ==
    kpc = "extracted" =>
        /\ base_key[1]
        /\ IF spelling.has2
           THEN /\ base_key[2] = SingleKey(spelling.sd, spelling.ed)
                                 \o <<"-", "E">> \o Pad2(spelling.ed2)
                /\ base_key[2] # SingleKey(spelling.sd, spelling.ed)
           ELSE /\ base_key[2] = SingleKey(spelling.sd, spelling.ed)
                /\ \A i \in 1..Len(base_key[2]) : base_key[2][i] # "-"

\* S01E01_e1 gives S01E01-E01
C6_Witness ==
    /\ kpc = "extracted"
    /\ spelling.has2
    /\ spelling.sep2 = <<"_">> /\ spelling.ec2 = "e" /\ spelling.ed2 = <<"1">>
    /\ base_key = <<TRUE, <<"S", "0", "1", "E", "0", "1", "-", "E", "0", "1">> >>

----------------------------------------------------------------------------
(* Properties of the directory pass (Spec)                                  *)

\* the key of a file's stem: <<FALSE>> or <<TRUE, key>>
KeyOfMatch(match) ==
    IF match.found THEN <<TRUE, _extract_base_key(match)>> ELSE <<FALSE>>
KeyOfFile(f) == KeyOfMatch(Search(SplitExt(f)[1]))

\* the keys of the files of the listing, by position
ListingKeys == [i \in DOMAIN filenames |-> KeyOfFile(filenames[i])]

\* the positions that hold a video file with a key, given the keys
KeyedVideos(keys) == {i \in DOMAIN filenames : IsMkv(filenames[i]) /\ keys[i][1]}

Classified(classes) == {i \in DOMAIN log : log[i].class \in classes}

InPass == pc = "loop"
PassEnded == pc = "loop" /\ idx > Len(ass_files)

\* C3: the lookup holds exactly the keys of the video files of the listing, each
\* mapped to the stem of the last video file of the listing with that key, and
\* one duplicate-key warning (key, old stem, new stem) was printed for every
\* video file whose key was already in the lookup.
C3_LastWriteWins ==
    InPass =>
        LET keys == ListingKeys
            videos == KeyedVideos(keys)
        IN  /\ DOMAIN mkv_basename_map = {keys[i][2] : i \in videos}
            /\ \A k \in DOMAIN mkv_basename_map :
                  \E i \in videos :
                     /\ keys[i][2] = k
                     /\ mkv_basename_map[k] = SplitExt(filenames[i])[1]
                     /\ \A j \in videos : keys[j][2] = k => j <= i
            /\ Len(warnings) = Cardinality(videos) - Cardinality(DOMAIN mkv_basename_map)
            /\ \A n \in DOMAIN warnings :
                  \E i, j \in videos :
                     /\ i < j
                     /\ keys[i][2] = warnings[n][1]
                     /\ keys[j][2] = warnings[n][1]
                     /\ warnings[n][2] = SplitExt(filenames[i])[1]
                     /\ warnings[n][3] = SplitExt(filenames[j])[1]

\* A.S01E01.mkv listed before B.s1e1.MKV: the lookup keeps B.s1e1, one warning
C3_Witness ==
    /\ InPass
    /\ filenames = <<Video_A, Sub_x, Video_B>>
    /\ mkv_basename_map[<<"S", "0", "1", "E", "0", "1">>] = <<"B", ".", "s", "1", "e", "1">>
    /\ Len(warnings) = 1

\* C2: a subtitle file whose target path held another file when it was processed
\* was classified name-collision, the directory was left as it was, the subtitle
\* and the file at the target are both still there, and the pass has not reduced
\* the number of files.
C2_NoOverwrite ==
    InPass =>
        /\ \A i \in DOMAIN log :
              log[i].others # {} =>
                 /\ log[i].class = "collision"
                 /\ log[i].after = log[i].before
                 /\ log[i].name \in fs
                 /\ log[i].others \subseteq fs
        /\ Cardinality(fs) = Cardinality(fs0)

\* the target was put there by an earlier rename of the same pass
C2_Witness ==
    /\ PassEnded
    /\ \E i, j \in DOMAIN log :
          /\ i < j
          /\ log[i].class = "renamed"
          /\ log[j].class = "collision"
          /\ log[j].others = {log[i].target}
          /\ log[j].name \in fs /\ log[i].target \in fs

\* C4: a subtitle file with a key in the lookup, a name other than its target, a
\* free target path and a rename that did not fail was classified
\* rename-performed; its target is the matched video's stem plus its own
\* extension in lower case; from then on the target name is in the directory and
\* the old name is not; and the success count is the number of such files.
C4_RenameResult ==
    InPass =>
        /\ \A i \in DOMAIN log :
              LET key == KeyOfFile(log[i].name)
                  target == mkv_basename_map[key[2]] \o Lower(SplitExt(log[i].name)[2])
              IN  ( /\ key[1]
                    /\ key[2] \in DOMAIN mkv_basename_map
                    /\ log[i].name # target
                    /\ ~\E g \in log[i].before : SamePath(ci, g, target)
                    /\ log[i].class # "failed" )
                  => /\ log[i].class = "renamed"
                     /\ log[i].target = mkv_basename_map[key[2]] \o AssExt
                     /\ log[i].target \in fs
                     /\ log[i].name \notin fs
        /\ total_ass_renamed = Cardinality(Classified({"renamed"}))

\* y.S01E01.chs.ASS beside A.S01E01.mkv has become A.S01E01.ass, one success
C4_Witness ==
    /\ PassEnded
    /\ fs = {Video_A, Sub_A}
    /\ Len(log) = 1
    /\ log[1].name = Sub_y /\ log[1].class = "renamed" /\ log[1].target = Sub_A
    /\ total_ass_renamed = 1

\* C7: a rename that failed left the directory as it was and counts as one error;
\* the loop went on: the log holds one classification for each subtitle file
\* handled so far, in order, so that a pass that has ended has classified every
\* subtitle file once; a finished run has been through every directory; and until
\* then a step is always possible (the walk yields a directory or is exhausted,
\* the loop has a file left or returns): nothing stops the run early.
C7_FailureIsolation ==
    /\ InPass =>
          /\ \A i \in Classified({"failed"}) : log[i].after = log[i].before
          /\ total_error >= Cardinality(Classified({"failed"}))
          /\ Len(log) = idx - 1
          /\ idx <= Len(ass_files) + 1
          /\ \A i \in DOMAIN log :
                /\ log[i].name = ass_files[i]
                /\ log[i].class \in {"nokey", "nomatch", "correct", "collision",
                                     "renamed", "failed"}
    /\ pc \in {"walk", "loop", "finished"}
    /\ pc = "walk" => visited <= nDirs
    /\ pc = "finished" => visited = nDirs /\ Len(perDir) = nDirs

\* the first rename failed and the next subtitle file was renamed all the same
C7_Witness ==
    /\ PassEnded
    /\ Len(log) = 2
    /\ log[1].class = "failed" /\ log[1].name \in fs
    /\ log[2].class = "renamed"
    /\ total_error = 1 /\ total_ass_renamed = 1
    /\ visited = 1 /\ nDirs > 1

\* C8: every name the directory held when the pass started is still there, but
\* for the subtitle files classified rename-performed; a step with any other
\* classification left the directory as it was; a rename changed one entry only,
\* and neither its source nor its target is a video file.
C8_Frame ==
    InPass =>
        /\ \A f \in fs0 :
              (\A i \in Classified({"renamed"}) : log[i].name # f) => f \in fs
        /\ \A i \in DOMAIN log :
              IF log[i].class = "renamed"
              THEN /\ log[i].after = (log[i].before \ {log[i].name}) \cup {log[i].target}
                   /\ ~IsMkv(log[i].name)
                   /\ ~IsMkv(log[i].target)
              ELSE log[i].after = log[i].before
        /\ \A i \in DOMAIN log :
              log[i].class \in {"nokey", "nomatch", "correct", "collision", "failed"}
              => log[i].name \in fs

\* a pass with a rename, a file left alone and a video file
C8_Witness ==
    /\ PassEnded
    /\ ci
    /\ fs0 = {Video_C, Sub_z, Sub_A_upper}
    /\ fs = {Video_C, <<"C",".","S","0","2","E","0","3",".","a","s","s">>, Sub_A_upper}

\* C9 as claimed: a subtitle file is classified name-collision only when another
\* file is at its target path; when the target path is its own entry under
\* another spelling, the rename is attempted.
C9_SameFileExempt ==
    \A i \in DOMAIN log :
        /\ log[i].class = "collision" => log[i].others # {}
        /\ ( /\ log[i].target # <<>>
             /\ log[i].name # log[i].target
             /\ SamePath(ci, log[i].name, log[i].target) )
           => log[i].class \in {"renamed", "failed"}

\* C10: the success count is the number of subtitle files classified
\* rename-performed so far, the error count the number classified name-collision
\* or rename-failed; together they never exceed the number of subtitle files; and
\* the totals of the run are the sums of the counts the directory passes returned.
RECURSIVE SumOf(_, _)
SumOf(pairs, n) ==
    IF pairs = <<>> THEN 0
    ELSE pairs[1][n] + SumOf(Tail(pairs), n)

C10_SummaryCounts ==
    /\ total_ass_renamed = Cardinality(Classified({"renamed"}))
    /\ total_error = Cardinality(Classified({"collision", "failed"}))
    /\ total_ass_renamed + total_error <= Len(ass_files)
    /\ g_renamed = SumOf(perDir, 1)
    /\ g_error = SumOf(perDir, 2)
    /\ pc = "finished" => Len(perDir) = nDirs

\* two directories, each with counts of its own, and the totals at the end
C10_Witness ==
    /\ pc = "finished"
    /\ perDir = << <<1, 1>>, <<1, 0>> >>
    /\ g_renamed = 2 /\ g_error = 1

----------------------------------------------------------------------------
(* Two runs in succession (SpecTwice)                                       *)

\* C1 as claimed: after a first run without filesystem failure, the second run
\* leaves the directory as it found it, renames nothing, and classifies every
\* subtitle file that has a target already-correct-name. (Stated for the runs
\* on a case-sensitive filesystem whose second listing gives the same lookup:
\* a file the first run left blocked refutes it there already.)
C1_IdempotentAllCorrect ==
    (run = 2 /\ InPass /\ ~prev.failed /\ ~ci /\ mkv_basename_map = prev.map) =>
        /\ fs = prev.dir
        /\ \A i \in DOMAIN log :
              /\ log[i].class # "renamed"
              /\ log[i].target # <<>> => log[i].class = "correct"

\* C1, amended: after a first run without filesystem failure, a second run whose
\* listing gives the same video lookup leaves the directory as it found it and
\* renames nothing; every subtitle file that has a target is classified
\* already-correct-name or name-collision.
C1_Idempotent ==
    (run = 2 /\ InPass /\ ~prev.failed /\ mkv_basename_map = prev.map) =>
        /\ fs = prev.dir
        /\ \A i \in DOMAIN log :
              /\ log[i].class \notin {"renamed", "failed"}
              /\ log[i].target # <<>> => log[i].class \in {"correct", "collision"}

\* the second run meets a file the first run renamed and one it left blocked
C1_Witness ==
    /\ run = 2 /\ PassEnded /\ ~prev.failed /\ mkv_basename_map = prev.map
    /\ fs = prev.dir
    /\ \E i, j \in DOMAIN log :
          /\ log[i].class = "correct" /\ log[i].name \notin Pool
          /\ log[j].class = "collision"

====
